---- MODULE Spec2Model ----
(***************************************************************************)
(* PHPStan Docker Runner (src/src/extension.ts).                           *)
(*                                                                         *)
(* The extension runs `docker exec <container> phpstan analyse ...`,       *)
(* captures the textual report and turns it into diagnostics keyed by      *)
(* local file.  Strings are TLA+ strings handled character by character    *)
(* (Len, SubSeq, \o), the host is POSIX (path.posix), and the local file   *)
(* system is a small tree.                                                 *)
(***************************************************************************)
EXTENDS Integers, Sequences, FiniteSets, TLC

(***************************************************************************)
(* Bounds of the model.                                                    *)
(***************************************************************************)
\* invocations (trigger events) per behaviour
MaxRuns == 2
\* lines of an enumerated report
MaxLines == 2

(***************************************************************************)
(* JavaScript strings.                                                     *)
(***************************************************************************)
Ch(s, i) == SubSeq(s, i, i)

\* \s of a JavaScript regular expression (the members the inputs use)
IsSpace(c) == c \in {" ", "\t", "\r"}

\* \d
IsDigit(c) == c \in {"0", "1", "2", "3", "4", "5", "6", "7", "8", "9"}

\* String.prototype.startsWith
StartsWith(s, p) == Len(p) <= Len(s) /\ SubSeq(s, 1, Len(p)) = p

\* String.prototype.endsWith
EndsWith(s, p) == Len(p) <= Len(s) /\ SubSeq(s, Len(s) - Len(p) + 1, Len(s)) = p

\* String.prototype.includes
Includes(s, p) == \E i \in 1..(Len(s) - Len(p) + 1) : SubSeq(s, i, i + Len(p) - 1) = p

\* String.prototype.substring(n): the string from 0-based index n on
Substring(s, n) == SubSeq(s, n + 1, Len(s))

\* the first index >= i whose character is not white space, Len(s)+1 if none
RECURSIVE SkipSpace(_, _)
SkipSpace(s, i) == IF i <= Len(s) /\ IsSpace(Ch(s, i)) THEN SkipSpace(s, i + 1) ELSE i

\* the first index >= i whose character is not a digit, Len(s)+1 if none
RECURSIVE SkipDigits(_, _)
SkipDigits(s, i) == IF i <= Len(s) /\ IsDigit(Ch(s, i)) THEN SkipDigits(s, i + 1) ELSE i

\* the first index >= i whose character is white space, Len(s)+1 if none
RECURSIVE SkipNonSpace(_, _)
SkipNonSpace(s, i) == IF i <= Len(s) /\ ~IsSpace(Ch(s, i)) THEN SkipNonSpace(s, i + 1) ELSE i

\* the last index <= i whose character is not white space, 0 if none
RECURSIVE BackSpace(_, _)
BackSpace(s, i) == IF i >= 1 /\ IsSpace(Ch(s, i)) THEN BackSpace(s, i - 1) ELSE i

\* String.prototype.trim
Trim(s) == SubSeq(s, SkipSpace(s, 1), BackSpace(s, Len(s)))

Max(S) == CHOOSE m \in S : \A n \in S : n <= m

Min(S) == CHOOSE m \in S : \A n \in S : m <= n

\* String.prototype.split('\n'): the pieces of s from index start on, nl the indices
\* of the line feeds left
RECURSIVE SplitFrom(_, _, _)
SplitFrom(s, start, nl) ==
    IF nl = {} THEN << SubSeq(s, start, Len(s)) >>
    ELSE << SubSeq(s, start, Min(nl) - 1) >> \o SplitFrom(s, Min(nl) + 1, nl \ {Min(nl)})

Split(s) == SplitFrom(s, 1, { i \in 1..Len(s) : Ch(s, i) = "\n" })

DigitValue(c) ==
    CASE c = "0" -> 0 [] c = "1" -> 1 [] c = "2" -> 2 [] c = "3" -> 3 [] c = "4" -> 4
      [] c = "5" -> 5 [] c = "6" -> 6 [] c = "7" -> 7 [] c = "8" -> 8 [] c = "9" -> 9

\* parseInt of a string of decimal digits
RECURSIVE ParseInt(_)
ParseInt(d) ==
    IF Len(d) = 0 THEN 0
    ELSE 10 * ParseInt(SubSeq(d, 1, Len(d) - 1)) + DigitValue(Ch(d, Len(d)))

(***************************************************************************)
(* path (POSIX).                                                           *)
(***************************************************************************)
\* path.isAbsolute
IsAbsolute(p) == Len(p) > 0 /\ Ch(p, 1) = "/"

\* the segments of p between slashes, empty ones included
RECURSIVE SegmentsFrom(_, _, _)
SegmentsFrom(p, start, i) ==
    IF i > Len(p) THEN << SubSeq(p, start, Len(p)) >>
    ELSE IF Ch(p, i) = "/"
         THEN << SubSeq(p, start, i - 1) >> \o SegmentsFrom(p, i + 1, i + 1)
         ELSE SegmentsFrom(p, start, i + 1)

Segments(p) == SegmentsFrom(p, 1, 1)

\* normalizeString: drops "" and ".", resolves ".." against the segments kept
RECURSIVE NormalizeSegs(_, _, _)
NormalizeSegs(segs, acc, allowAboveRoot) ==
    IF segs = << >> THEN acc
    ELSE LET h == Head(segs)
             t == Tail(segs)
         IN  IF h = "" \/ h = "." THEN NormalizeSegs(t, acc, allowAboveRoot)
             ELSE IF h = ".."
                  THEN IF acc # << >> /\ acc[Len(acc)] # ".."
                       THEN NormalizeSegs(t, SubSeq(acc, 1, Len(acc) - 1), allowAboveRoot)
                       ELSE IF allowAboveRoot
                            THEN NormalizeSegs(t, Append(acc, ".."), allowAboveRoot)
                            ELSE NormalizeSegs(t, acc, allowAboveRoot)
                  ELSE NormalizeSegs(t, Append(acc, h), allowAboveRoot)

RECURSIVE JoinSegs(_)
JoinSegs(segs) ==
    IF segs = << >> THEN ""
    ELSE IF Len(segs) = 1 THEN segs[1]
         ELSE segs[1] \o "/" \o JoinSegs(Tail(segs))

\* path.normalize, body the normalized segments of p joined
NormalizeWith(p, body) ==
    LET abs   == IsAbsolute(p)
        trail == Ch(p, Len(p)) = "/"
    IN  IF Len(body) = 0
        THEN (IF abs THEN "/" ELSE IF trail THEN "./" ELSE ".")
        ELSE (IF abs THEN "/" ELSE "") \o body \o (IF trail THEN "/" ELSE "")

Normalize(p) ==
    IF Len(p) = 0 THEN "."
    ELSE NormalizeWith(p, JoinSegs(NormalizeSegs(Segments(p), << >>, ~IsAbsolute(p))))

\* path.join(a, b)
PathJoin(a, b) ==
    IF Len(a) = 0 /\ Len(b) = 0 THEN "."
    ELSE IF Len(a) = 0 THEN Normalize(b)
    ELSE IF Len(b) = 0 THEN Normalize(a)
    ELSE Normalize(a \o "/" \o b)

\* path.resolve(from, to), from an absolute path
PathResolve(from, to) ==
    LET full == IF IsAbsolute(to) THEN to
                ELSE IF Len(to) = 0 THEN from ELSE from \o "/" \o to
    IN  "/" \o JoinSegs(NormalizeSegs(Segments(full), << >>, FALSE))

\* path.basename
Basename(p) ==
    LET segs == SelectSeq(Segments(p), LAMBDA x : x # "")
    IN  IF segs = << >> THEN "" ELSE segs[Len(segs)]

(***************************************************************************)
(* fs: the local file system.  A file system is a record                   *)
(*   kind : absolute canonical path -> "file" | "dir" | "locked"           *)
(*   list : directory path -> the names readdirSync returns, in its order  *)
(* "locked" is a directory the process may not read (readdirSync throws).  *)
(***************************************************************************)
NoEnt == ""

Parent(p) ==
    LET segs == SelectSeq(Segments(p), LAMBDA x : x # "")
    IN  "/" \o JoinSegs(SubSeq(segs, 1, Len(segs) - 1))

Child(dir, name) == IF dir = "/" THEN "/" \o name ELSE dir \o "/" \o name

IsDirKind(f, p) == p \in DOMAIN f.kind /\ f.kind[p] \in {"dir", "locked"}

\* the kernel's walk of an absolute path: the canonical path reached, or NoEnt
RECURSIVE Walk(_, _, _)
Walk(f, cur, segs) ==
    IF segs = << >> THEN cur
    ELSE IF ~IsDirKind(f, cur) THEN NoEnt
    ELSE LET h == Head(segs)
         IN  IF h = "" \/ h = "." THEN Walk(f, cur, Tail(segs))
             ELSE IF h = ".." THEN Walk(f, Parent(cur), Tail(segs))
             ELSE IF Child(cur, h) \in DOMAIN f.kind
                  THEN Walk(f, Child(cur, h), Tail(segs))
                  ELSE NoEnt

\* relative paths are looked up from the extension host's working directory,
\* which holds none of the modelled files
Lookup(f, p) == IF IsAbsolute(p) THEN Walk(f, "/", Tail(Segments(p))) ELSE NoEnt

\* fs.existsSync
ExistsSync(f, p) == Lookup(f, p) # NoEnt

\* fs.statSync(p).isDirectory(), p existing
IsDirectory(f, p) == IsDirKind(f, Lookup(f, p))

(***************************************************************************)
(* findFileInWorkspace (extension.ts 240-260): a stack-driven walk of the  *)
(* tree.  The result is [threw, path, error]: path = "" is undefined,      *)
(* threw for an exception of readdirSync or statSync, error its message.   *)
(***************************************************************************)
Found(p) == [threw |-> FALSE, path |-> p, error |-> ""]

Thrown(msg) == [threw |-> TRUE, path |-> "", error |-> msg]

RECURSIVE FindLoop(_, _, _)
RECURSIVE FindInDir(_, _, _, _, _, _)
\* one turn of `for (const file of files)`: file = files[i], fullPath = path.join(dir, file)
FindEntry(f, fileName, dir, files, i, stack, fullPath) ==
    IF ~ExistsSync(f, fullPath)
    THEN Thrown("ENOENT: no such file or directory, stat '" \o fullPath \o "'")
    ELSE IF IsDirectory(f, fullPath)
         THEN FindInDir(f, fileName, dir, files, i + 1, Append(stack, fullPath))
         ELSE IF files[i] = fileName THEN Found(fullPath)
         ELSE FindInDir(f, fileName, dir, files, i + 1, stack)

\* the body of `for (const file of files)` from index i on
FindInDir(f, fileName, dir, files, i, stack) ==
    IF i > Len(files) THEN FindLoop(f, fileName, stack)
    ELSE FindEntry(f, fileName, dir, files, i, stack, PathJoin(dir, files[i]))

\* fs.readdirSync(dir) and the loop over it; at is where dir leads on disk
ReadDir(f, fileName, dir, rest, at) ==
    IF at = NoEnt
    THEN Thrown("ENOENT: no such file or directory, scandir '" \o dir \o "'")
    ELSE IF f.kind[at] = "locked"
         THEN Thrown("EACCES: permission denied, scandir '" \o dir \o "'")
    ELSE IF f.kind[at] = "file"
         THEN Thrown("ENOTDIR: not a directory, scandir '" \o dir \o "'")
    ELSE FindInDir(f, fileName, dir, f.list[at], 1, rest)

\* `while (stack.length)`
FindLoop(f, fileName, stack) ==
    IF stack = << >> THEN Found("")
    ELSE IF stack[Len(stack)] = "" THEN FindLoop(f, fileName, SubSeq(stack, 1, Len(stack) - 1))
    ELSE ReadDir(f, fileName, stack[Len(stack)], SubSeq(stack, 1, Len(stack) - 1),
                 Lookup(f, stack[Len(stack)]))

\* mutant of findFileInWorkspace: the whole workspace root is searched, whatever the scope
findFileInWorkspaceWholeRoot(f, root, fileName, searchDir) ==
    FindLoop(f, fileName, << root >>)

\* extension.ts 240-260
findFileInWorkspace(f, root, fileName, searchDir) ==
    LET searchRoot == IF searchDir # "" /\ ExistsSync(f, searchDir) /\ IsDirectory(f, searchDir)
                      THEN searchDir ELSE root
    IN  FindLoop(f, fileName, << searchRoot >>)

(***************************************************************************)
(* The line rules of processPhpstanOutput (extension.ts 175-206).          *)
(***************************************************************************)
\* `.` of a regular expression matches no line terminator
NoLineTerminator(s) == ~Includes(s, "\r") /\ ~Includes(s, "\n")

\* line.match(/^\s*(\d+)\s+(.+)$/): [ok, num, text], the groups 1 and 2
ErrorMatch(line) ==
    LET i == SkipSpace(line, 1)
        j == SkipDigits(line, i)
        k == SkipSpace(line, j)
        \* \s+ is greedy and gives back one character when nothing follows it
        g == IF k <= Len(line) THEN k ELSE Len(line)
    IN  IF j > i /\ g > j /\ NoLineTerminator(SubSeq(line, g, Len(line)))
        THEN [ok |-> TRUE, num |-> SubSeq(line, i, j - 1), text |-> SubSeq(line, g, Len(line))]
        ELSE [ok |-> FALSE, num |-> "", text |-> ""]

\* the starts q of ".php" that end a match of [^\s]+\.php begun at index i
PhpEnds(line, i) ==
    { q \in (i + 1)..(SkipNonSpace(line, i) - 4) : SubSeq(line, q, q + 3) = ".php" }

\* line.match(/([^\s]+\.php)/): [ok, token], the leftmost match, greedy
FileMatch(line) ==
    LET starts == { i \in 1..Len(line) : ~IsSpace(Ch(line, i)) /\ PhpEnds(line, i) # {} }
    IN  IF starts = {} THEN [ok |-> FALSE, token |-> ""]
        ELSE LET i == Min(starts)
             IN  [ok |-> TRUE, token |-> SubSeq(line, i, Max(PhpEnds(line, i)) + 3)]

\* new vscode.Diagnostic(new vscode.Range(n, 0, n, 1000), message, Warning), source PHPStan
Diagnostic(lineNumber, message) ==
    [line |-> lineNumber, startChar |-> 0, endChar |-> 1000, message |-> message,
     severity |-> "Warning", source |-> "PHPStan"]

(***************************************************************************)
(* `diagnostics`: the object { [file]: Diagnostic[] }, a sequence of       *)
(* [file, diags] in the insertion order of its keys.                       *)
(***************************************************************************)
Keys(d) == { d[i].file : i \in DOMAIN d }

DiagsOf(d, file) ==
    IF file \in Keys(d) THEN d[CHOOSE i \in DOMAIN d : d[i].file = file].diags ELSE << >>

\* mutant of Push: the diagnostic is put at the head of the list of its file
PushAtHead(d, file, diag) ==
    IF file \in Keys(d)
    THEN [i \in DOMAIN d |-> IF d[i].file = file
                             THEN [file |-> file, diags |-> << diag >> \o d[i].diags]
                             ELSE d[i]]
    ELSE Append(d, [file |-> file, diags |-> << diag >>])

\* diagnostics[file] = diagnostics[file] || []; diagnostics[file].push(diag)
Push(d, file, diag) ==
    IF file \in Keys(d)
    THEN [i \in DOMAIN d |-> IF d[i].file = file
                             THEN [file |-> file, diags |-> Append(d[i].diags, diag)]
                             ELSE d[i]]
    ELSE Append(d, [file |-> file, diags |-> << diag >>])

(***************************************************************************)
(* Resolution of a header token to a local path (extension.ts 207-234).    *)
(* ctx = [fs, workspaceRoot, workDirectory, targetPath]; targetPath = ""   *)
(* stands for undefined.                                                   *)
(***************************************************************************)
\* mutant of KnownFilePath: the scope is never taken as a known file
KnownFilePathNever(ctx) == ""

\* extension.ts 170-173
KnownFilePath(ctx) ==
    IF ctx.targetPath # "" /\ EndsWith(ctx.targetPath, ".php") /\ ExistsSync(ctx.fs, ctx.targetPath)
    THEN ctx.targetPath ELSE ""

\* extension.ts 216-223: the candidate under the workspace root
Candidate(ctx, token) ==
    IF StartsWith(token, ctx.workDirectory)
    THEN LET rest         == Substring(token, Len(ctx.workDirectory))
             relativePath == IF StartsWith(rest, "/") THEN Substring(rest, 1) ELSE rest
         IN  PathResolve(ctx.workspaceRoot, relativePath)
    ELSE PathResolve(ctx.workspaceRoot, token)

\* mutant of SearchResult: what the search found is not used
SearchResultIgnored(resolvedPath, found) == Found(resolvedPath)

\* extension.ts 229-231: found is what findFileInWorkspace returned
SearchResult(resolvedPath, found) ==
    IF found.threw THEN found
    ELSE IF found.path # "" THEN found
    ELSE Found(resolvedPath)

\* extension.ts 225-232
Fallback(ctx, token, resolvedPath) ==
    IF ExistsSync(ctx.fs, resolvedPath) THEN Found(resolvedPath)
    ELSE SearchResult(resolvedPath,
                      findFileInWorkspace(ctx.fs, ctx.workspaceRoot, Basename(token),
                                          ctx.targetPath))

\* mutant of ResolveWith: a token that exists as it is goes through the candidate too
ResolveWithoutAsIs(ctx, token, knownFilePath) ==
    IF knownFilePath # "" THEN Found(knownFilePath)
    ELSE Fallback(ctx, token, Candidate(ctx, token))

\* extension.ts 210-233, knownFilePath given
ResolveWith(ctx, token, knownFilePath) ==
    IF knownFilePath # "" THEN Found(knownFilePath)
    ELSE IF IsAbsolute(token) /\ ExistsSync(ctx.fs, token) THEN Found(token)
    ELSE Fallback(ctx, token, Candidate(ctx, token))

\* extension.ts 210-233: [threw, path, error]
ResolvePath(ctx, token) == ResolveWith(ctx, token, KnownFilePath(ctx))

(***************************************************************************)
(* The scan (extension.ts 164-237).  The scan state is                     *)
(* [currentFile, diagnostics, threw, error].                               *)
(***************************************************************************)
ScanInit == [currentFile |-> "", diagnostics |-> << >>, threw |-> FALSE, error |-> ""]

\* mutant of Emit: the guard on currentFile is dropped
EmitWithoutFile(st, lineNumber, message) ==
    IF lineNumber >= 0
    THEN [st EXCEPT !.diagnostics = Push(@, st.currentFile, Diagnostic(lineNumber, message))]
    ELSE st

\* mutant of Emit: the guard on the line number is dropped
EmitAnyLine(st, lineNumber, message) ==
    IF st.currentFile # ""
    THEN [st EXCEPT !.diagnostics = Push(@, st.currentFile, Diagnostic(lineNumber, message))]
    ELSE st

\* extension.ts 189-202
Emit(st, lineNumber, message) ==
    IF st.currentFile # "" /\ lineNumber >= 0
    THEN [st EXCEPT !.diagnostics = Push(@, st.currentFile, Diagnostic(lineNumber, message))]
    ELSE st

\* mutant of ErrorRow: the line number is kept 1-based
ErrorRowOneBased(st, errorMatch) == Emit(st, ParseInt(errorMatch.num), Trim(errorMatch.text))

\* extension.ts 186-202
ErrorRow(st, errorMatch) == Emit(st, ParseInt(errorMatch.num) - 1, Trim(errorMatch.text))

\* extension.ts 234: currentFile = resolvedPath, unless the resolution threw
SetCurrentFile(st, r) ==
    IF r.threw THEN [st EXCEPT !.threw = TRUE, !.error = r.error]
    ELSE [st EXCEPT !.currentFile = r.path]

\* extension.ts 206-235
HeaderToken(ctx, st, fileMatch) ==
    IF ~fileMatch.ok THEN st ELSE SetCurrentFile(st, ResolvePath(ctx, fileMatch.token))

\* extension.ts 203-236
FileHeader(ctx, st, line) == HeaderToken(ctx, st, FileMatch(line))

\* extension.ts 184-236
RowOrHeader(ctx, st, line, errorMatch) ==
    IF errorMatch.ok THEN ErrorRow(st, errorMatch)
    ELSE IF Includes(line, ".php") THEN FileHeader(ctx, st, line)
    ELSE st

\* the body of `for (const line of lines)`
ScanLine(ctx, st, line) ==
    IF st.threw THEN st
    ELSE IF Trim(line) = "" THEN st
    ELSE IF Includes(line, "------") /\ Includes(line, "------") THEN st
    ELSE RowOrHeader(ctx, st, line, ErrorMatch(line))

RECURSIVE ScanFrom(_, _, _, _)
ScanFrom(ctx, st, lines, i) ==
    IF i > Len(lines) THEN st ELSE ScanFrom(ctx, ScanLine(ctx, st, lines[i]), lines, i + 1)

\* the scan of a whole stdout
Scan(ctx, stdout) == ScanFrom(ctx, ScanInit, Split(stdout), 1)

\* extension.ts 269: the total of the lengths
RECURSIVE TotalErrors(_)
TotalErrors(d) == IF d = << >> THEN 0 ELSE Len(Head(d).diags) + TotalErrors(Tail(d))

(***************************************************************************)
(* Inputs.  The workspace root is /w and the container sees the project    *)
(* at /r (or at /w, a bind mount with the same path on both sides).        *)
(***************************************************************************)
\* a project with two directories and its phpstan configuration
FsA ==
    [kind |-> [p \in {"/", "/w", "/w/s", "/w/t"} |-> "dir"]
              @@ [p \in {"/w/s/F.php", "/w/t/G.php", "/w/t/F.php", "/w/c.neon"} |-> "file"],
     list |-> [p \in {"/"} |-> << "w" >>]
              @@ [p \in {"/w"} |-> << "s", "t", "c.neon" >>]
              @@ [p \in {"/w/s"} |-> << "F.php" >>]
              @@ [p \in {"/w/t"} |-> << "G.php", "F.php" >>]]

\* a project holding a directory the process may not read, and no configuration
FsB ==
    [kind |-> [p \in {"/", "/w", "/w/s", "/w/t"} |-> "dir"]
              @@ [p \in {"/w/k"} |-> "locked"]
              @@ [p \in {"/w/s/F.php", "/w/t/G.php"} |-> "file"],
     list |-> [p \in {"/"} |-> << "w" >>]
              @@ [p \in {"/w"} |-> << "t", "k", "s" >>]
              @@ [p \in {"/w/s"} |-> << "F.php" >>]
              @@ [p \in {"/w/t"} |-> << "G.php" >>]]

\* an empty project
FsC ==
    [kind |-> [p \in {"/", "/w"} |-> "dir"],
     list |-> [p \in {"/"} |-> << "w" >>] @@ [p \in {"/w"} |-> << >>]]

FileSystems == {FsA, FsB, FsC}

\* vscode.workspace.getConfiguration('phpstan-docker-runner') (extension.ts 49, 64-69)
CfgA ==
    [containerName |-> "php", workDirectory |-> "/r", configFile |-> "c.neon",
     level |-> "5", phpstanPath |-> "bin/phpstan", autoRun |-> TRUE]

CfgB ==
    [containerName |-> "php", workDirectory |-> "/w", configFile |-> "",
     level |-> "9", phpstanPath |-> "phpstan", autoRun |-> FALSE]

\* a bind mount: the remote working directory is a directory of the project itself
CfgC ==
    [containerName |-> "php", workDirectory |-> "/w/s", configFile |-> "",
     level |-> "0", phpstanPath |-> "phpstan", autoRun |-> FALSE]

Configs == {CfgA, CfgB, CfgC}

\* vscode.workspace.workspaceFolders?.[0]?.uri.fsPath; "" stands for undefined
WorkspaceRoots == {"/w", ""}

\* activeEditor.document.fileName, uri.fsPath, document.fileName; "" stands for none
FileNames == {"", "/w/s/F.php", "/w/t", "/w/c.neon", "/w/s/N.php", "/w/s\\F.php"}

\* the lines of a report
Corpus ==
    { "",
      " ------ ------",
      " Line   s/F.php",
      "/r/x/G.php",
      "/r/N.php",
      "/w/t/F.php",
      " 12   Undefined method foo().",
      "  0 zero",
      "3 in G.php ",
      "7  ",
      "4 a ------",
      " .php",
      " [OK] No errors" }

RECURSIVE JoinLines(_)
JoinLines(ls) ==
    IF ls = << >> THEN ""
    ELSE IF Len(ls) = 1 THEN ls[1]
         ELSE ls[1] \o "\n" \o JoinLines(Tail(ls))

\* every stdout of at most n lines of the corpus
ReportsUpTo(n) == { JoinLines(ls) : ls \in UNION { [1..k -> Corpus] : k \in 0..n } }

\* whole reports as phpstan prints them: one file, and two files
ReportOne ==
    " ------ ------\n  Line   s/F.php\n ------ ------\n  12     Undefined method foo().\n ------ ------\n"

ReportTwo ==
    " ------ ------\n  Line   t/G.php\n ------ ------\n  3      a\n  5      b\n ------ ------\n"
    \o " ------ ------\n  Line   s/F.php\n ------ ------\n  1      c\n ------ ------\n"
    \o "\n [ERROR] Found 3 errors\n"

\* a report whose header names a file that is found by the search of the workspace only
ReportSearch == "/r/x/G.php\n 3 in G.php "

\* a report whose second header starts a search of the workspace, after a row was kept
ReportPartial == " Line   s/F.php\n 12   Undefined method foo().\n/r/x/G.php\n 3 a"

\* a report that names s/F.php by two headers, with another file between them
ReportAgain ==
    " Line   s/F.php\n  5 b\n/w/t/G.php\n3 in G.php \n Line   s/F.php\n  2 a"

\* a report whose header names a file beside the remote working directory /r, not below it
ReportSibling == "/rx/G.php\n 3 a"

\* a report whose header names a file by the path it has on both sides of a bind mount
ReportMounted == "/w/s/F.php\n 3 a"

\* the ways the docker process ends: an exit code with the captured text, or the timeout
Exits(R, codes, E) ==
    [kind : {"exit"}, code : codes, stdout : R, stderr : E]

Timeouts(R, E) ==
    [kind : {"timeout"}, code : {0}, stdout : R, stderr : E]

(***************************************************************************)
(* State.                                                                  *)
(***************************************************************************)
VARIABLES
    workspaceRoot,        \* the first workspace folder, "" when there is none
    config,               \* the extension's settings
    fs,                   \* the local file system
    diagnosticCollection, \* extension.ts 9: uri -> Diagnostic[], what the editor displays
    phpstanOutputChannel, \* extension.ts 10: the chunks appended since the last clear()
    messages,             \* the messages shown to the user, [run, kind, text], in order
    runs,                 \* per invocation: where it stands, what it holds, what it did
    setBy                 \* uri -> the invocation whose set() call the editor displays

vars ==
    << workspaceRoot, config, fs, diagnosticCollection, phpstanOutputChannel,
       messages, runs, setBy >>

Slots == 1..MaxRuns

\* pc: "idle" (not yet triggered), "progress" (withProgress called), "exec" (awaiting
\* execAsync), "rethrown" (the task rejected, the outer catch pending), "done".
\* trace: the calls the invocation made, [ev, arg], in order.
\* overlapped: another invocation was under way at some moment of this one.
\* appliedDuring: the invocations under way when this one applied its diagnostics.
IdleRun ==
    [pc |-> "idle", invoked |-> FALSE, targetPath |-> "", dockerCommand |-> "",
     exit |-> "", code |-> 0, stdout |-> "", stderr |-> "", error |-> "",
     diagnostics |-> << >>, trace |-> << >>, overlapped |-> FALSE, appliedDuring |-> {}]

\* vscode.Uri.file(p).toString() of a POSIX path
UriFile(p) ==
    IF StartsWith(p, "//") THEN "file:" \o p
    ELSE IF IsAbsolute(p) THEN "file://" \o p
    ELSE "file:///" \o p

Event(ev, arg) == [ev |-> ev, arg |-> arg]

Message(r, kind, text) == [run |-> r, kind |-> kind, text |-> text]

\* the invocations between their clear() and the end of their continuation
Active == { q \in Slots : runs[q].pc \in {"progress", "exec"} }

InitOver(roots, cfgs, fss) ==
    /\ workspaceRoot \in roots
    /\ config \in cfgs
    /\ fs \in fss
    /\ diagnosticCollection = << >>
    /\ phpstanOutputChannel = << >>
    /\ messages = << >>
    /\ runs = [r \in Slots |-> IdleRun]
    /\ setBy = << >>

(***************************************************************************)
(* runPhpstan, first part (extension.ts 62-81): up to the call of          *)
(* withProgress.                                                           *)
(***************************************************************************)
\* mutant of Cleared: clear() leaves the collection as it is
ClearedNothing(dc) == dc

\* diagnosticCollection.clear()
Cleared(dc) == << >>

\* extension.ts 72-75
NoWorkspace(r, targetPath) ==
    /\ messages' = Append(messages, Message(r, "error", "No se encontró un workspace abierto"))
    /\ runs' = [runs EXCEPT ![r] =
                  [@ EXCEPT !.pc = "done", !.invoked = TRUE, !.targetPath = targetPath,
                            !.trace = << Event("invoke", targetPath), Event("message", "error") >>]]
    /\ UNCHANGED << diagnosticCollection, setBy, phpstanOutputChannel >>

\* extension.ts 77-81
ClearAndStart(r, targetPath) ==
    /\ diagnosticCollection' = Cleared(diagnosticCollection)
    /\ setBy' = Cleared(setBy)
    /\ runs' = [q \in Slots |->
                  IF q = r
                  THEN [runs[q] EXCEPT !.pc = "progress", !.invoked = TRUE,
                                       !.targetPath = targetPath,
                                       !.overlapped = (Active # {}),
                                       !.trace = << Event("invoke", targetPath),
                                                    Event("clear", "") >>]
                  ELSE IF q \in Active THEN [runs[q] EXCEPT !.overlapped = TRUE]
                  ELSE runs[q]]
    /\ UNCHANGED << messages, phpstanOutputChannel >>

\* mutant of RunPhpstan: the workspace root is not checked
RunPhpstanUnchecked(r, targetPath) == ClearAndStart(r, targetPath)

\* extension.ts 62-81
RunPhpstan(r, targetPath) ==
    IF workspaceRoot = "" THEN NoWorkspace(r, targetPath) ELSE ClearAndStart(r, targetPath)

\* a handler that returns without calling runPhpstan, after the warning it shows (if any)
NoRun(r, warning) ==
    /\ runs' = [runs EXCEPT ![r] =
                  [@ EXCEPT !.pc = "done",
                            !.trace = IF warning = "" THEN << >>
                                      ELSE << Event("message", "warning") >>]]
    /\ messages' = IF warning = "" THEN messages
                   ELSE Append(messages, Message(r, "warning", warning))
    /\ UNCHANGED << diagnosticCollection, setBy, phpstanOutputChannel >>

\* the slot of the next invocation
NextSlot(r) == runs[r].pc = "idle" /\ \A q \in Slots : q < r => runs[q].pc # "idle"

(***************************************************************************)
(* The triggers registered by activate (extension.ts 23-57).               *)
(***************************************************************************)
\* extension.ts 24-26
RunPhpstanCommand(r) ==
    /\ NextSlot(r)
    /\ RunPhpstan(r, "")
    /\ UNCHANGED << workspaceRoot, config, fs >>

\* mutant of RunPhpstanFileCommand: the active editor is not looked at
RunPhpstanFileCommandAnyFile(r, activeEditor) ==
    /\ NextSlot(r)
    /\ RunPhpstan(r, activeEditor)
    /\ UNCHANGED << workspaceRoot, config, fs >>

\* extension.ts 29-36
RunPhpstanFileCommand(r, activeEditor) ==
    /\ NextSlot(r)
    /\ IF activeEditor = "" \/ ~EndsWith(activeEditor, ".php")
       THEN NoRun(r, "Por favor, abre un archivo PHP primero")
       ELSE RunPhpstan(r, activeEditor)
    /\ UNCHANGED << workspaceRoot, config, fs >>

\* extension.ts 40: uri ? uri.fsPath : workspaceFolders?.[0]?.uri.fsPath
DirectoryTarget(uri) == IF uri # "" THEN uri ELSE workspaceRoot

\* extension.ts 39-46
RunPhpstanDirectoryCommand(r, uri) ==
    /\ NextSlot(r)
    /\ IF DirectoryTarget(uri) = ""
       THEN NoRun(r, "No se pudo determinar el directorio de trabajo")
       ELSE RunPhpstan(r, DirectoryTarget(uri))
    /\ UNCHANGED << workspaceRoot, config, fs >>

\* extension.ts 49-57
OnSaveListener(r, document) ==
    /\ config.autoRun
    /\ NextSlot(r)
    /\ IF EndsWith(document, ".php") THEN RunPhpstan(r, document) ELSE NoRun(r, "")
    /\ UNCHANGED << workspaceRoot, config, fs >>

(***************************************************************************)
(* The task handed to withProgress, up to the await of execAsync           *)
(* (extension.ts 85-118).                                                  *)
(***************************************************************************)
RECURSIVE CommonLen(_, _)
CommonLen(a, b) ==
    IF a # << >> /\ b # << >> /\ Head(a) = Head(b) THEN 1 + CommonLen(Tail(a), Tail(b)) ELSE 0

\* path.relative over the segments a of `from` and b of `to`, n of them shared
RelativeSegs(a, b, n) == JoinSegs([i \in 1..(Len(a) - n) |-> ".."] \o SubSeq(b, n + 1, Len(b)))

RelativeOf(a, b) == RelativeSegs(a, b, CommonLen(a, b))

\* path.relative(from, to) for absolute paths
PathRelative(from, to) ==
    RelativeOf(NormalizeSegs(Segments(from), << >>, FALSE),
               NormalizeSegs(Segments(to), << >>, FALSE))

\* String.prototype.replace(/\\/g, '/')
RECURSIVE ReplaceBackslashes(_)
ReplaceBackslashes(s) ==
    IF Len(s) = 0 THEN ""
    ELSE (IF Ch(s, 1) = "\\" THEN "/" ELSE Ch(s, 1)) \o ReplaceBackslashes(Substring(s, 1))

\* mutant of ContainerPath: the local path is joined as it is, not made relative
ContainerPathNotRelative(root, workDirectory, targetPath) ==
    IF targetPath # ""
    THEN ReplaceBackslashes(PathJoin(workDirectory, targetPath))
    ELSE workDirectory

\* extension.ts 95-102
ContainerPath(root, workDirectory, targetPath) ==
    IF targetPath # ""
    THEN ReplaceBackslashes(PathJoin(workDirectory, PathRelative(root, targetPath)))
    ELSE workDirectory

\* mutant of PhpstanCommand: the configuration file is named without the existence check
PhpstanCommandUnchecked(f, root, cfg, targetPath) ==
    cfg.phpstanPath \o " analyse --level=" \o cfg.level
    \o (IF cfg.configFile # "" THEN " --configuration=" \o cfg.configFile ELSE "")
    \o " " \o ContainerPath(root, cfg.workDirectory, targetPath)

\* extension.ts 89-102
PhpstanCommand(f, root, cfg, targetPath) ==
    cfg.phpstanPath \o " analyse --level=" \o cfg.level
    \o (IF cfg.configFile # "" /\ ExistsSync(f, PathJoin(root, cfg.configFile))
        THEN " --configuration=" \o cfg.configFile ELSE "")
    \o " " \o ContainerPath(root, cfg.workDirectory, targetPath)

\* mutant of DockerCommand: the container is not named
DockerCommandNoContainer(f, root, cfg, targetPath) ==
    "docker exec " \o PhpstanCommand(f, root, cfg, targetPath)

\* extension.ts 105
DockerCommand(f, root, cfg, targetPath) ==
    "docker exec " \o cfg.containerName \o " " \o PhpstanCommand(f, root, cfg, targetPath)

\* extension.ts 115: execAsync(dockerCommand, ...)
ExecAsync(r, dockerCommand) ==
    runs' = [runs EXCEPT ![r] = [@ EXCEPT !.pc = "exec", !.dockerCommand = dockerCommand,
                                          !.trace = Append(@, Event("launch", dockerCommand))]]

Launch(r) ==
    /\ runs[r].pc = "progress"
    /\ ExecAsync(r, DockerCommand(fs, workspaceRoot, config, runs[r].targetPath))
    /\ UNCHANGED << workspaceRoot, config, fs, diagnosticCollection, setBy,
                    phpstanOutputChannel, messages >>

(***************************************************************************)
(* processPhpstanOutput (extension.ts 163-280), called by run r.           *)
(***************************************************************************)
Context(r) ==
    [fs |-> fs, workspaceRoot |-> workspaceRoot, workDirectory |-> config.workDirectory,
     targetPath |-> runs[r].targetPath]

\* mutant of ApplyDiagnostics: the collection is replaced by the set as a whole
ApplyDiagnosticsReplacing(dc, d) ==
    LET uris == { UriFile(k) : k \in Keys(d) }
        last(u) == Max({ i \in DOMAIN d : UriFile(d[i].file) = u })
    IN  [u \in uris |-> d[last(u)].diags]

\* extension.ts 263-266: diagnosticCollection.set(uri, fileDiagnostics) for every entry
ApplyDiagnostics(dc, d) ==
    LET uris == { UriFile(k) : k \in Keys(d) }
        last(u) == Max({ i \in DOMAIN d : UriFile(d[i].file) = u })
    IN  [u \in DOMAIN dc \cup uris |-> IF u \in uris THEN d[last(u)].diags ELSE dc[u]]

\* the owner of every entry after the same calls
ApplyOwner(sb, d, r) ==
    LET uris == { UriFile(k) : k \in Keys(d) }
    IN  [u \in DOMAIN sb \cup uris |-> IF u \in uris THEN r ELSE sb[u]]

SetEvents(d) == [i \in DOMAIN d |-> Event("set", UriFile(d[i].file))]

RECURSIVE Decimal(_)
Decimal(n) ==
    IF n < 10 THEN SubSeq("0123456789", n + 1, n + 1)
    ELSE Decimal(n \div 10) \o SubSeq("0123456789", (n % 10) + 1, (n % 10) + 1)

\* mutant of Summary: the number of files is given as the number of problems
SummaryOfFiles(d) ==
    IF TotalErrors(d) > 0
    THEN [kind |-> "warning",
          text |-> "PHPStan encontró " \o Decimal(Len(d)) \o " problemas en "
                   \o Decimal(Len(d)) \o " archivos"]
    ELSE [kind |-> "information", text |-> "PHPStan no encontró problemas"]

\* mutant of Summary: the count is always announced as problems
SummaryNeverClean(d) ==
    [kind |-> "warning",
     text |-> "PHPStan encontró " \o Decimal(TotalErrors(d)) \o " problemas en "
              \o Decimal(Len(d)) \o " archivos"]

\* extension.ts 269-274: [kind, text]
Summary(d) ==
    IF TotalErrors(d) > 0
    THEN [kind |-> "warning",
          text |-> "PHPStan encontró " \o Decimal(TotalErrors(d)) \o " problemas en "
                   \o Decimal(Len(d)) \o " archivos"]
    ELSE [kind |-> "information", text |-> "PHPStan no encontró problemas"]

\* mutant of Processed: what the scan had gathered is set even when the scan threw
ProcessedAppliesPartial(r, stdout, dc, sb, msgs, trace, st, summary) ==
    [threw |-> st.threw, error |-> st.error,
     diagnostics |-> IF st.threw THEN << >> ELSE st.diagnostics,
     collection |-> ApplyDiagnostics(dc, st.diagnostics),
     owner |-> ApplyOwner(sb, st.diagnostics, r),
     messages |-> IF st.threw THEN msgs
                  ELSE Append(msgs, Message(r, summary.kind, summary.text)),
     trace |-> IF st.threw THEN Append(trace, Event("parse", stdout))
               ELSE (Append(trace, Event("parse", stdout)) \o SetEvents(st.diagnostics))
                    \o << Event("message", summary.kind) >>]

\* mutant of Processed: the files that are displayed already are left out of the result
ProcessedOnlyNewFiles(r, stdout, dc, sb, msgs, trace, st, summary) ==
    [threw |-> FALSE, error |-> "",
     diagnostics |-> SelectSeq(st.diagnostics, LAMBDA e : UriFile(e.file) \notin DOMAIN dc),
     collection |-> ApplyDiagnostics(dc, st.diagnostics),
     owner |-> ApplyOwner(sb, st.diagnostics, r),
     messages |-> Append(msgs, Message(r, summary.kind, summary.text)),
     trace |-> (Append(trace, Event("parse", stdout)) \o SetEvents(st.diagnostics))
               \o << Event("message", summary.kind) >>]

\* extension.ts 262-274, or the exception of the scan: st is the scan's last state and
\* summary the message of its diagnostics
Processed(r, stdout, dc, sb, msgs, trace, st, summary) ==
    IF st.threw
    THEN [threw |-> TRUE, error |-> st.error, diagnostics |-> << >>, collection |-> dc,
          owner |-> sb, messages |-> msgs, trace |-> Append(trace, Event("parse", stdout))]
    ELSE [threw |-> FALSE, error |-> "", diagnostics |-> st.diagnostics,
          collection |-> ApplyDiagnostics(dc, st.diagnostics),
          owner |-> ApplyOwner(sb, st.diagnostics, r),
          messages |-> Append(msgs, Message(r, summary.kind, summary.text)),
          trace |-> (Append(trace, Event("parse", stdout)) \o SetEvents(st.diagnostics))
                    \o << Event("message", summary.kind) >>]

ScanSummary(st) == Summary(st.diagnostics)

ProcessedScan(r, stdout, dc, sb, msgs, trace, st) ==
    Processed(r, stdout, dc, sb, msgs, trace, st, ScanSummary(st))

\* what the call leaves: [threw, error, diagnostics, collection, owner, messages, trace]
processPhpstanOutput(r, stdout, stderr, dc, sb, msgs, trace) ==
    ProcessedScan(r, stdout, dc, sb, msgs, trace, Scan(Context(r), stdout))

(***************************************************************************)
(* The two continuations of `await execAsync` (extension.ts 113-154) and   *)
(* the outer catch (extension.ts 157-160).                                 *)
(***************************************************************************)
\* mutant of LogChunks: the captured stderr is left out
LogChunksNoStderr(cmd, stdout, stderr) ==
    << "Comando ejecutado: " \o cmd \o "\n", "--- STDOUT ---\n", stdout >>

\* extension.ts 121-129 and 138-146: what the channel holds after clear() and the appends
LogChunks(cmd, stdout, stderr) ==
    << "Comando ejecutado: " \o cmd \o "\n", "--- STDOUT ---\n", stdout >>
    \o (IF stderr # "" THEN << "\n--- STDERR ---\n", stderr >> ELSE << >>)

RECURSIVE Concat(_)
Concat(chunks) == IF chunks = << >> THEN "" ELSE Head(chunks) \o Concat(Tail(chunks))

LogEvent(cmd, stdout, stderr) == Event("log", Concat(LogChunks(cmd, stdout, stderr)))

\* the message of the error exec rejects with
ExecError(cmd, stderr) == "Command failed: " \o cmd \o "\n" \o stderr

\* what the run holds once the process has ended as o
Ended(r, o) ==
    [runs[r] EXCEPT !.exit = o.kind, !.code = o.code, !.stdout = o.stdout, !.stderr = o.stderr]

\* the run after processPhpstanOutput returned p
Finished(r, o, p) ==
    [Ended(r, o) EXCEPT !.pc = "done", !.diagnostics = p.diagnostics, !.trace = p.trace,
                        !.appliedDuring = Active \ {r}]

\* extension.ts 134-153 on the resolved path: p is what processPhpstanOutput left
AfterResolved(r, o, p) ==
    /\ diagnosticCollection' = p.collection
    /\ setBy' = p.owner
    /\ messages' = p.messages
    /\ IF p.threw
       THEN \* the inner catch logs the file-system error, which carries no output
            /\ phpstanOutputChannel' = LogChunks(runs[r].dockerCommand, "", "")
            /\ runs' = [runs EXCEPT ![r] =
                          [Ended(r, o) EXCEPT !.pc = "rethrown", !.error = p.error,
                                              !.trace = Append(p.trace,
                                                  LogEvent(runs[r].dockerCommand, "", ""))]]
       ELSE /\ phpstanOutputChannel' = LogChunks(runs[r].dockerCommand, o.stdout, o.stderr)
            /\ runs' = [runs EXCEPT ![r] = Finished(r, o, p)]

\* extension.ts 115-134, and 136-153 when processPhpstanOutput throws inside the try
ExecResolved(r, o) ==
    /\ runs[r].pc = "exec"
    /\ o.kind = "exit" /\ o.code = 0
    /\ AfterResolved(r, o,
                     processPhpstanOutput(r, o.stdout, o.stderr, diagnosticCollection, setBy,
                         messages,
                         Append(runs[r].trace, LogEvent(runs[r].dockerCommand, o.stdout, o.stderr))))
    /\ UNCHANGED << workspaceRoot, config, fs >>

\* extension.ts 148-150: the exit code is 1, p is what processPhpstanOutput left
AfterIssuesFound(r, o, p) ==
    /\ diagnosticCollection' = p.collection
    /\ setBy' = p.owner
    /\ messages' = p.messages
    /\ runs' = [runs EXCEPT ![r] =
                  IF p.threw
                  THEN [Ended(r, o) EXCEPT !.pc = "rethrown", !.error = p.error,
                                           !.trace = p.trace]
                  ELSE Finished(r, o, p)]

\* mutant of Rethrow: what the invocation before had set is put back on display
RethrowRestoring(r, o, logged) ==
    /\ runs' = [runs EXCEPT ![r] =
                  [Ended(r, o) EXCEPT !.pc = "rethrown", !.trace = logged,
                                      !.error = ExecError(runs[r].dockerCommand, o.stderr)]]
    /\ diagnosticCollection' = IF r > 1
                               THEN ApplyDiagnostics(<< >>, runs[r - 1].diagnostics)
                               ELSE diagnosticCollection
    /\ UNCHANGED << setBy, messages >>

\* mutant of Rethrow: the command is launched again instead of the error being thrown
RethrowRetries(r, o, logged) ==
    /\ runs' = [runs EXCEPT ![r] = [Ended(r, o) EXCEPT !.pc = "progress", !.trace = logged]]
    /\ UNCHANGED << diagnosticCollection, setBy, messages >>

\* extension.ts 151-153: throw error
Rethrow(r, o, logged) ==
    /\ runs' = [runs EXCEPT ![r] =
                  [Ended(r, o) EXCEPT !.pc = "rethrown", !.trace = logged,
                                      !.error = ExecError(runs[r].dockerCommand, o.stderr)]]
    /\ UNCHANGED << diagnosticCollection, setBy, messages >>

\* mutant of AfterRejected: the report is interpreted whatever the process ended with
AfterRejectedAlwaysParses(r, o, logged) ==
    AfterIssuesFound(r, o, processPhpstanOutput(r, o.stdout, o.stderr,
                                diagnosticCollection, setBy, messages, logged))

\* mutant of AfterRejected: exit code 1 is rethrown like any other code
AfterRejectedAlwaysThrows(r, o, logged) == Rethrow(r, o, logged)

\* extension.ts 148-153: logged is the trace with the log of the catch block
AfterRejected(r, o, logged) ==
    IF o.kind = "exit" /\ o.code = 1
    THEN AfterIssuesFound(r, o, processPhpstanOutput(r, o.stdout, o.stderr,
                                    diagnosticCollection, setBy, messages, logged))
    ELSE Rethrow(r, o, logged)

\* extension.ts 136-153
ExecRejected(r, o) ==
    /\ runs[r].pc = "exec"
    /\ ~(o.kind = "exit" /\ o.code = 0)
    /\ phpstanOutputChannel' = LogChunks(runs[r].dockerCommand, o.stdout, o.stderr)
    /\ AfterRejected(r, o, Append(runs[r].trace,
                                  LogEvent(runs[r].dockerCommand, o.stdout, o.stderr)))
    /\ UNCHANGED << workspaceRoot, config, fs >>

\* extension.ts 157-160
\* mutant of OuterCatch: the error is written to the console only
OuterCatchSilent(r) ==
    /\ runs[r].pc = "rethrown"
    /\ runs' = [runs EXCEPT ![r] = [@ EXCEPT !.pc = "done"]]
    /\ UNCHANGED << workspaceRoot, config, fs, diagnosticCollection, setBy,
                    phpstanOutputChannel, messages >>

\* extension.ts 157-160
OuterCatch(r) ==
    /\ runs[r].pc = "rethrown"
    /\ messages' = Append(messages, Message(r, "error", "Error ejecutando PHPStan: " \o runs[r].error))
    /\ runs' = [runs EXCEPT ![r] = [@ EXCEPT !.pc = "done",
                                             !.trace = Append(@, Event("message", "error"))]]
    /\ UNCHANGED << workspaceRoot, config, fs, diagnosticCollection, setBy,
                    phpstanOutputChannel >>

(***************************************************************************)
(* Specifications.  NextOver(n, names, O): at most n invocations, on the   *)
(* file names `names`, the process ending in one of the ways O.            *)
(***************************************************************************)
NextOver(n, names, O) ==
    \/ \E r \in 1..n : RunPhpstanCommand(r)
    \/ \E r \in 1..n, activeEditor \in names : RunPhpstanFileCommand(r, activeEditor)
    \/ \E r \in 1..n, uri \in names : RunPhpstanDirectoryCommand(r, uri)
    \/ \E r \in 1..n, document \in names \ {""} : OnSaveListener(r, document)
    \/ \E r \in 1..n : Launch(r)
    \/ \E r \in 1..n, o \in O : ExecResolved(r, o)
    \/ \E r \in 1..n, o \in O : ExecRejected(r, o)
    \/ \E r \in 1..n : OuterCatch(r)

\* Spec: MaxRuns invocations that may overlap, on whole reports
Init == InitOver(WorkspaceRoots, {CfgA}, {FsA})

Outcomes ==
    Exits({ReportOne, ReportTwo, ReportSearch}, {0, 1}, {""})
    \cup Exits({ReportOne}, {2}, {"oops"})
    \cup Timeouts({""}, {""})

Next == NextOver(MaxRuns, {"", "/w/s/F.php", "/w/c.neon"}, Outcomes)

Spec == Init /\ [][Next]_vars

\* SingleSpec: one invocation, on every report of at most MaxLines lines of the corpus
SingleInit == InitOver(WorkspaceRoots, Configs, FileSystems)

SingleOutcomes ==
    Exits(ReportsUpTo(MaxLines) \cup {ReportTwo, ReportPartial, ReportAgain, ReportSibling, ReportMounted}, {0, 1}, {""})
    \cup Exits({"", ReportOne}, {2, 255}, {"", "oops"})
    \cup Timeouts({"", " Line   s/F.php"}, {""})

SingleNext == NextOver(1, FileNames, SingleOutcomes)

SingleSpec == SingleInit /\ [][SingleNext]_vars

(***************************************************************************)
(* Properties.                                                             *)
(***************************************************************************)
\* the invocations whose report was interpreted to the end
Interpreted(r) ==
    /\ runs[r].pc = "done"
    /\ runs[r].exit = "exit"
    /\ runs[r].code \in {0, 1}
    /\ runs[r].error = ""

Lines(r) == Split(runs[r].stdout)

\* rules 1 and 2: blank and separator lines
IsSkipped(line) == Trim(line) = "" \/ Includes(line, "------")

\* rule 3: a diagnostic row
IsRow(line) == ~IsSkipped(line) /\ ErrorMatch(line).ok

\* rule 4: a line that names a file
IsHeader(line) == ~IsSkipped(line) /\ ~ErrorMatch(line).ok /\ FileMatch(line).ok

\* the rows of the report that follow a file-header line
RowsAfterHeader(lines) ==
    { i \in DOMAIN lines : IsRow(lines[i]) /\ \E h \in 1..(i - 1) : IsHeader(lines[h]) }

EventsOf(r, ev) == { i \in DOMAIN runs[r].trace : runs[r].trace[i].ev = ev }

MessagesOf(r) == SelectSeq(messages, LAMBDA m : m.run = r)

\* C1: with a single known local file as scope (the target ends in .php and exists
\* locally), every key of the DiagnosticSet, and every uri set for display, is that
\* file, whatever the header lines of the report say.
C1_KnownFileOnly ==
    \A r \in Slots :
        (/\ Interpreted(r)
         /\ EndsWith(runs[r].targetPath, ".php")
         /\ ExistsSync(fs, runs[r].targetPath))
        => /\ Keys(runs[r].diagnostics) \subseteq {runs[r].targetPath}
           /\ \A i \in EventsOf(r, "set") :
                  runs[r].trace[i].arg = UriFile(runs[r].targetPath)

\* a run on /w/s/F.php whose report names another file, with its row kept under F.php
C1_Witness ==
    \E r \in Slots :
        /\ Interpreted(r)
        /\ runs[r].targetPath = "/w/s/F.php"
        /\ runs[r].stdout = "/r/x/G.php\n 12   Undefined method foo()."
        /\ Keys(runs[r].diagnostics) = {"/w/s/F.php"}
        /\ DOMAIN diagnosticCollection = {"file:///w/s/F.php"}

\* C2: a diagnostic row that comes before any file-header line is dropped: the
\* DiagnosticSet holds no more diagnostics than rows follow a header line, and a report
\* without a header line yields an empty set, with nothing set for display.
C2_OrphanRowsDropped ==
    \A r \in Slots :
        Interpreted(r)
        => /\ TotalErrors(runs[r].diagnostics) <= Cardinality(RowsAfterHeader(Lines(r)))
           /\ (\A i \in DOMAIN Lines(r) : ~IsHeader(Lines(r)[i]))
              => /\ runs[r].diagnostics = << >>
                 /\ EventsOf(r, "set") = {}

\* a report whose only row precedes its only header
C2_Witness ==
    \E r \in Slots :
        /\ Interpreted(r)
        /\ runs[r].stdout = " 12   Undefined method foo().\n/r/N.php"
        /\ runs[r].diagnostics = << >>
        /\ diagnosticCollection = << >>

\* the header line that governs line i: the last one before it
HeaderBefore(lines, i) == Max({ h \in 1..(i - 1) : IsHeader(lines[h]) })

\* the rows that yield a diagnostic: they follow a header and carry a line number >= 1
Yielding(lines) ==
    { i \in RowsAfterHeader(lines) : ParseInt(ErrorMatch(lines[i]).num) >= 1 }

\* C3: a diagnostic row with line number n >= 1 and text m, scanned while a current
\* file is established, yields exactly one Diagnostic, keyed by the current file, with
\* line n-1, message m trimmed, severity Warning and source PHPStan; the header s/F.php
\* followed by the row 12 "Undefined method foo()." yields one Diagnostic at line 11.
C3_RowYieldsDiagnostic ==
    \A r \in Slots :
        Interpreted(r)
        => LET lines == Lines(r)
               d     == runs[r].diagnostics
           IN  /\ TotalErrors(d) = Cardinality(Yielding(lines))
               /\ \A i \in Yielding(lines) :
                      \E j \in DOMAIN DiagsOf(d, ResolvePath(Context(r),
                                   FileMatch(lines[HeaderBefore(lines, i)]).token).path) :
                          DiagsOf(d, ResolvePath(Context(r),
                                   FileMatch(lines[HeaderBefore(lines, i)]).token).path)[j]
                          = [line |-> ParseInt(ErrorMatch(lines[i]).num) - 1,
                             startChar |-> 0, endChar |-> 1000,
                             message |-> Trim(ErrorMatch(lines[i]).text),
                             severity |-> "Warning", source |-> "PHPStan"]
               /\ runs[r].stdout = " Line   s/F.php\n 12   Undefined method foo()."
                  => d = << [file |-> "/w/s/F.php",
                             diags |-> << [line |-> 11, startChar |-> 0, endChar |-> 1000,
                                           message |-> "Undefined method foo().",
                                           severity |-> "Warning", source |-> "PHPStan"] >>] >>

\* the example of the specification, on the whole project
C3_Witness ==
    \E r \in Slots :
        /\ Interpreted(r)
        /\ runs[r].targetPath = ""
        /\ runs[r].stdout = " Line   s/F.php\n 12   Undefined method foo()."
        /\ TotalErrors(runs[r].diagnostics) = 1
        /\ "file:///w/s/F.php" \in DOMAIN diagnosticCollection
        /\ diagnosticCollection["file:///w/s/F.php"][1].line = 11

\* the invocation ended with the process exiting with this code
ExitedWith(r, code) ==
    runs[r].pc = "done" /\ runs[r].exit = "exit" /\ runs[r].code = code

\* what the invocation did from the interpretation of the report on
Outcome(r) ==
    SelectSeq(runs[r].trace, LAMBDA e : e.ev \in {"parse", "set", "message"})

Shown(r) == [i \in DOMAIN MessagesOf(r) |-> << MessagesOf(r)[i].kind, MessagesOf(r)[i].text >>]

\* C4: a run whose process exits with code 1 ends like a run whose process exits with
\* code 0 on the same captured output: the same DiagnosticSet, the same entries set for
\* display, the same message.
C4_IssuesFoundAsSuccess ==
    \A a, b \in Slots :
        (/\ ExitedWith(a, 0)
         /\ ExitedWith(b, 1)
         /\ runs[a].stdout = runs[b].stdout
         /\ runs[a].targetPath = runs[b].targetPath)
        => /\ runs[a].diagnostics = runs[b].diagnostics
           /\ Outcome(a) = Outcome(b)
           /\ Shown(a) = Shown(b)

\* the same report of three problems, once with exit code 0 and once with exit code 1
C4_Witness ==
    \E a, b \in Slots :
        /\ ExitedWith(a, 0)
        /\ ExitedWith(b, 1)
        /\ runs[a].stdout = ReportTwo
        /\ runs[b].stdout = ReportTwo
        /\ runs[a].targetPath = runs[b].targetPath
        /\ TotalErrors(runs[b].diagnostics) = 3
        /\ Shown(b) = << << "warning", "PHPStan encontró 3 problemas en 2 archivos" >> >>

\* C5: every invocation clears the displayed diagnostics before its process is
\* started, so that while it is between its start and the application of its own
\* result, nothing an earlier invocation applied is displayed.
C5_NoEarlierDiagnostics ==
    \A r \in Active :
        \A u \in DOMAIN diagnosticCollection : ~(setBy[u] < r)

\* what the clear of line 78 does give: it precedes the launch, and while an invocation
\* is under way every displayed entry was applied after its clear, by an invocation
\* that overlaps it
ClearedBeforeLaunch ==
    \A r \in Slots :
        /\ \A i \in EventsOf(r, "launch") : \E j \in EventsOf(r, "clear") : j < i
        /\ r \in Active
           => /\ \A u \in DOMAIN diagnosticCollection : r \in runs[setBy[u]].appliedDuring
              /\ ~runs[r].overlapped => diagnosticCollection = << >>

\* the invocation ran from its clear to its end with no other invocation under way,
\* and no invocation was triggered since
RanAloneLast(r) ==
    /\ Interpreted(r)
    /\ ~runs[r].overlapped
    /\ \A q \in Slots : q > r => ~runs[q].invoked

\* C6: for invocations that do not overlap, once an invocation has completed the
\* displayed diagnostics are exactly its DiagnosticSet: every file of the set shows the
\* diagnostics of the set, and no other file shows any.
C6_RunReplacesDisplay ==
    \A r \in Slots :
        RanAloneLast(r)
        => /\ DOMAIN diagnosticCollection = { UriFile(k) : k \in Keys(runs[r].diagnostics) }
           /\ \A k \in Keys(runs[r].diagnostics) :
                  diagnosticCollection[UriFile(k)] = DiagsOf(runs[r].diagnostics, k)

\* a run that reported two files is followed by a run that reports one of them only
C6_Witness ==
    \E q, r \in Slots :
        /\ q < r
        /\ Interpreted(q)
        /\ Keys(runs[q].diagnostics) = {"/w/t/G.php", "/w/s/F.php"}
        /\ RanAloneLast(r)
        /\ Keys(runs[r].diagnostics) = {"/w/s/F.php"}
        /\ DOMAIN diagnosticCollection = {"file:///w/s/F.php"}

\* the text the log is to hold: the command launched, then what the process wrote
LogText(r) ==
    "Comando ejecutado: " \o runs[r].dockerCommand \o "\n--- STDOUT ---\n" \o runs[r].stdout
    \o (IF runs[r].stderr # "" THEN "\n--- STDERR ---\n" \o runs[r].stderr ELSE "")

Logged(r) == { i \in EventsOf(r, "log") : runs[r].trace[i].arg = LogText(r) }

\* C7 as stated: every invocation that has ended, the one stopped by the missing
\* workspace root included, wrote the command, stdout and stderr to the log.
C7_EveryInvocationLogs ==
    \A r \in Slots :
        (runs[r].invoked /\ runs[r].pc = "done") => Logged(r) # {}

\* C7, amended: for every invocation whose process was launched and has ended, whatever
\* the outcome (exit code 0, exit code 1, another exit code, timeout), the log received
\* the command launched followed by the captured stdout and stderr, and received them
\* before the report was interpreted; an invocation stopped by the missing workspace
\* root runs no command and logs nothing.
C7_LaunchedInvocationLogs ==
    \A r \in Slots :
        /\ runs[r].exit # ""
           => /\ Logged(r) # {}
              /\ \A i \in EventsOf(r, "launch") : runs[r].trace[i].arg = runs[r].dockerCommand
              /\ \A j \in EventsOf(r, "parse") : \E i \in Logged(r) : i < j
              /\ ~(runs[r].code = 0 /\ runs[r].error # "")
                 => Concat(phpstanOutputChannel) = LogText(r)
        /\ (runs[r].invoked /\ workspaceRoot = "")
           => EventsOf(r, "log") = {} /\ phpstanOutputChannel = << >>

\* a process that wrote to stderr and exited with code 2: its text is in the log
C7_Witness ==
    \E r \in Slots :
        /\ runs[r].exit = "exit"
        /\ runs[r].code = 2
        /\ runs[r].stdout = ReportOne
        /\ runs[r].stderr = "oops"
        /\ Logged(r) # {}
        /\ Len(phpstanOutputChannel) = 5

\* the process timed out, or exited with a code other than 0 and 1
Failed(r) ==
    \/ runs[r].exit = "timeout"
    \/ runs[r].exit = "exit" /\ runs[r].code \notin {0, 1}

\* C8: when the process times out or exits with a code other than 0 and 1, the captured
\* text is logged, then the user is shown an error message that carries the error of
\* the execution; the report is never interpreted and no diagnostic is set.
C8_ExecutionFailure ==
    \A r \in Slots :
        Failed(r)
        => /\ runs[r].pc \in {"rethrown", "done"}
           /\ EventsOf(r, "parse") = {}
           /\ EventsOf(r, "set") = {}
           /\ runs[r].diagnostics = << >>
           /\ diagnosticCollection = << >>
           /\ Logged(r) # {}
           /\ runs[r].pc = "rethrown" => MessagesOf(r) = << >>
           /\ runs[r].pc = "done"
              => /\ Shown(r) = << << "error",
                                     "Error ejecutando PHPStan: Command failed: "
                                     \o runs[r].dockerCommand \o "\n" \o runs[r].stderr >> >>
                 /\ \A i \in Logged(r) : \A j \in EventsOf(r, "message") : i < j

\* a failed execution of a process that had written a report: the error is shown
C8_Witness ==
    \E r \in Slots :
        /\ Failed(r)
        /\ runs[r].pc = "done"
        /\ runs[r].stdout # ""
        /\ Len(MessagesOf(r)) = 1
        /\ MessagesOf(r)[1].kind = "error"

\* C9: without a workspace root runPhpstan reports an error to the user and returns: no
\* process is launched, no report is interpreted, no diagnostic is set.
C9_NoWorkspaceRoot ==
    workspaceRoot = ""
    => \A r \in Slots :
           runs[r].invoked
           => /\ runs[r].pc = "done"
              /\ runs[r].trace = << Event("invoke", runs[r].targetPath),
                                    Event("message", "error") >>
              /\ Shown(r) = << << "error", "No se encontró un workspace abierto" >> >>
              /\ runs[r].exit = ""
              /\ runs[r].diagnostics = << >>
              /\ diagnosticCollection = << >>

\* runPhpstan was called on a file while no workspace folder is open
C9_Witness ==
    /\ workspaceRoot = ""
    /\ \E r \in Slots :
           /\ runs[r].invoked
           /\ runs[r].targetPath = "/w/s/F.php"
           /\ Len(MessagesOf(r)) = 1

\* the process exited with code 0 or 1 and wrote nothing to stdout
EmptyReport(r) ==
    runs[r].exit = "exit" /\ runs[r].code \in {0, 1} /\ runs[r].stdout = ""

\* C10: an empty stdout yields an empty DiagnosticSet, no call of set, and the
\* information message that no problem was found; no error is reported.
C10_EmptyReport ==
    \A r \in Slots :
        EmptyReport(r)
        => /\ runs[r].pc = "done"
           /\ runs[r].error = ""
           /\ runs[r].diagnostics = << >>
           /\ EventsOf(r, "set") = {}
           /\ diagnosticCollection = << >>
           /\ Shown(r) = << << "information", "PHPStan no encontró problemas" >> >>

\* an analysis that exits with code 0 and an empty stdout
C10_Witness ==
    \E r \in Slots :
        /\ EmptyReport(r)
        /\ runs[r].code = 0
        /\ EventsOf(r, "parse") # {}
        /\ Len(MessagesOf(r)) = 1

Words(cmd) == SplitFrom(cmd, 1, { i \in 1..Len(cmd) : Ch(cmd, i) = " " })

Launched(r) == runs[r].dockerCommand # ""

SlashedOf(a, b) ==
    /\ Len(a) = Len(b)
    /\ \A i \in 1..Len(b) : Ch(a, i) = (IF Ch(b, i) = "\\" THEN "/" ELSE Ch(b, i))

RemotePath(r) == Words(runs[r].dockerCommand)[Len(Words(runs[r].dockerCommand))]

\* C13: the path argument is the remote working directory itself when the whole project
\* is analysed; for a file or a directory below the workspace root it is the remote
\* working directory followed by the part of the local path below the root, every
\* backslash turned into a slash; /ws/src/Foo.php with root /ws and remote directory
\* /var/www/html gives /var/www/html/src/Foo.php.
C13_RemotePath ==
    /\ \A r \in Slots :
           Launched(r)
           => /\ runs[r].targetPath \in {"", workspaceRoot}
                 => RemotePath(r) = config.workDirectory
              /\ StartsWith(runs[r].targetPath, workspaceRoot \o "/")
                 => SlashedOf(RemotePath(r),
                              config.workDirectory
                              \o Substring(runs[r].targetPath, Len(workspaceRoot)))
    /\ ContainerPath("/ws", "/var/www/html", "/ws/src/Foo.php") = "/var/www/html/src/Foo.php"
    /\ ContainerPath("/ws", "/var/www/html", "") = "/var/www/html"

\* a file whose name holds a backslash
C13_Witness ==
    \E r \in Slots :
        /\ Launched(r)
        /\ config.workDirectory = "/r"
        /\ runs[r].targetPath = "/w/s\\F.php"
        /\ RemotePath(r) = "/r/s/F.php"

\* C14: --configuration=<config-file> is an argument of the command exactly when a
\* configuration file is named and exists at the workspace root; it is then there once,
\* right after --level and right before the path.
C14_ConfigurationArgument ==
    \A r \in Slots :
        Launched(r)
        => LET w == Words(runs[r].dockerCommand)
               c == { i \in DOMAIN w : StartsWith(w[i], "--configuration=") }
           IN  /\ c # {} <=> /\ config.configFile # ""
                             /\ ExistsSync(fs, workspaceRoot \o "/" \o config.configFile)
               /\ c # {} => /\ c = {7}
                            /\ w[7] = "--configuration=" \o config.configFile
                            /\ StartsWith(w[6], "--level=")
                            /\ Len(w) = 8

\* a configuration file is named and the workspace does not hold it
C14_Witness ==
    \E r \in Slots :
        /\ Launched(r)
        /\ config.configFile = "c.neon"
        /\ ~ExistsSync(fs, "/w/c.neon")
        /\ runs[r].dockerCommand = "docker exec php bin/phpstan analyse --level=5 /r/t"

\* the directory the filename search of the run starts from
SearchRoot(r) ==
    IF runs[r].targetPath \in DOMAIN fs.kind /\ fs.kind[runs[r].targetPath] # "file"
    THEN runs[r].targetPath
    ELSE workspaceRoot

\* the files below dir that bear this name
FilesNamed(dir, name) ==
    { p \in DOMAIN fs.kind :
        fs.kind[p] = "file" /\ StartsWith(p, dir \o "/") /\ EndsWith(p, "/" \o name) }

\* C15 as stated: every key of the DiagnosticSet exists on disk.
C15_KeysExist ==
    \A r \in Slots :
        Interpreted(r) => \A k \in Keys(runs[r].diagnostics) : ExistsSync(fs, k)

\* C15, amended: every key of the DiagnosticSet is an absolute local path; it exists on
\* disk, unless the path built from the header does not exist and the directory
\* searched holds no file of its name: then the key is that path, which does not exist.
C15_KeysExistOrUnfound ==
    \A r \in Slots :
        Interpreted(r)
        => \A k \in Keys(runs[r].diagnostics) :
               /\ IsAbsolute(k)
               /\ ExistsSync(fs, k) \/ FilesNamed(SearchRoot(r), Basename(k)) = {}

\* a header names a file the workspace does not hold: its row is kept under a path
\* that does not exist
C15_Witness ==
    \E r \in Slots :
        /\ Interpreted(r)
        /\ runs[r].stdout = "/r/N.php\n 12   Undefined method foo()."
        /\ Keys(runs[r].diagnostics) = {"/w/N.php"}
        /\ ~ExistsSync(fs, "/w/N.php")
        /\ "file:///w/N.php" \in DOMAIN diagnosticCollection

\* the set calls of the run, in order
SetCalls(r) == SelectSeq(runs[r].trace, LAMBDA e : e.ev = "set")

\* C16: diagnostics are set only after the scan of the report, one set call per file of
\* the DiagnosticSet, in its order, and none per row; the collection holds either
\* nothing of a run or its whole DiagnosticSet, and nothing of a scan that did not
\* come to its end.
C16_AppliedAfterScan ==
    \A r \in { q \in Slots : runs[q].invoked } :
        /\ \A i \in EventsOf(r, "set") : \E j \in EventsOf(r, "parse") : j < i
        /\ Interpreted(r)
           => SetCalls(r) = [i \in DOMAIN runs[r].diagnostics |->
                                Event("set", UriFile(runs[r].diagnostics[i].file))]
        /\ ~Interpreted(r) => diagnosticCollection = << >> /\ SetCalls(r) = << >>
        /\ diagnosticCollection # << >>
           => /\ DOMAIN diagnosticCollection
                 = { UriFile(k) : k \in Keys(runs[r].diagnostics) }
              /\ \A k \in Keys(runs[r].diagnostics) :
                     Len(diagnosticCollection[UriFile(k)])
                     = Cardinality({ i \in Yielding(Lines(r)) :
                           ResolvePath(Context(r),
                               FileMatch(Lines(r)[HeaderBefore(Lines(r), i)]).token).path = k })

\* two files, one of them with two rows: two set calls
C16_Witness ==
    \E r \in Slots :
        /\ Interpreted(r)
        /\ runs[r].stdout = ReportTwo
        /\ runs[r].targetPath = ""
        /\ SetCalls(r) = << Event("set", "file:///w/t/G.php"), Event("set", "file:///w/s/F.php") >>
        /\ Len(diagnosticCollection["file:///w/t/G.php"]) = 2

\* a scan that threw after it had kept a row: nothing is set
C16_WitnessThrown ==
    \E r \in Slots :
        /\ runs[r].stdout = ReportPartial
        /\ runs[r].error # ""
        /\ EventsOf(r, "parse") # {}
        /\ diagnosticCollection = << >>

\* the messages runPhpstan may end with
ResultMessages ==
    { << "warning", "PHPStan encontró " \o Decimal(n) \o " problemas en "
                    \o Decimal(f) \o " archivos" >> : n \in 1..8, f \in 1..8 }
    \cup { << "information", "PHPStan no encontró problemas" >> }

IsResultMessage(m) ==
    \/ m \in ResultMessages
    \/ m[1] = "error" /\ m[2] = "No se encontró un workspace abierto"
    \/ m[1] = "error" /\ StartsWith(m[2], "Error ejecutando PHPStan: ")

\* the messages of an invocation of runPhpstan: none while it is under way, one once
\* it has ended
OneResultMessage(r) ==
    runs[r].invoked
    => /\ runs[r].pc # "done" => Shown(r) = << >>
       /\ runs[r].pc = "done" => Len(Shown(r)) = 1 /\ IsResultMessage(Shown(r)[1])

\* C17: every invocation of runPhpstan shows exactly one result message, the count of
\* problems, "no problems found" or an error: none while it is under way, one, and no
\* second one, once it has ended.
C17_OneResultMessage == \A r \in Slots : OneResultMessage(r)

\* a scan that threw: the summary is not shown, the error is
C17_Witness ==
    \E r \in Slots :
        /\ runs[r].pc = "done"
        /\ runs[r].exit = "exit"
        /\ runs[r].code = 0
        /\ EventsOf(r, "parse") # {}
        /\ Len(Shown(r)) = 1
        /\ Shown(r)[1][1] = "error"

\* the diagnostics of a DiagnosticSet, each by its place
Places(d) == { p \in (DOMAIN d) \X (1..8) : p[2] \in DOMAIN d[p[1]].diags }

Numerals == << "1", "2", "3", "4", "5", "6", "7", "8" >>

Numeral(n) == Numerals[n]

\* C18: the summary gives the number of diagnostics of the DiagnosticSet and the number
\* of its files; it is the warning with the two counts exactly when there is at least
\* one diagnostic, and the information message "no problems found" exactly when there
\* is none.
C18_SummaryCounts ==
    \A r \in Slots :
        Interpreted(r)
        => LET total == Cardinality(Places(runs[r].diagnostics))
               files == Cardinality(Keys(runs[r].diagnostics))
           IN  /\ total > 0
                  => Shown(r) = << << "warning",
                                      "PHPStan encontró " \o Numeral(total)
                                      \o " problemas en " \o Numeral(files)
                                      \o " archivos" >> >>
               /\ total = 0
                  => Shown(r) = << << "information", "PHPStan no encontró problemas" >> >>

\* three problems in two files
C18_Witness ==
    \E r \in Slots :
        /\ Interpreted(r)
        /\ runs[r].stdout = ReportTwo
        /\ Cardinality(Keys(runs[r].diagnostics)) = 2
        /\ Shown(r) = << << "warning", "PHPStan encontró 3 problemas en 2 archivos" >> >>

\* C19: whatever the report and the local file system, a path that cannot be resolved,
\* a row without a file, a search that finds nothing or cannot read a directory do not
\* end the run with an error: once the process has exited with code 0 or 1 the report
\* is interpreted to its end and the run shows a summary.
C19_ParseNeverErrors ==
    \A r \in Slots :
        (runs[r].exit = "exit" /\ runs[r].code \in {0, 1})
        => /\ runs[r].pc = "done"
           /\ runs[r].error = ""
           /\ \A i \in DOMAIN Shown(r) : Shown(r)[i][1] # "error"

\* the step of handler leaves invocation r not invoked, with this warning or none
NoOpStep(r, warning) ==
    /\ ~runs'[r].invoked
    /\ runs'[r].pc = "done"
    /\ \A i \in DOMAIN runs'[r].trace : runs'[r].trace[i].ev \notin {"invoke", "clear", "launch"}
    /\ runs'[r].dockerCommand = ""
    /\ \A q \in Slots \ {r} : runs'[q] = runs[q]
    /\ diagnosticCollection' = diagnosticCollection
    /\ setBy' = setBy
    /\ phpstanOutputChannel' = phpstanOutputChannel
    /\ messages' = IF warning = "" THEN messages
                   ELSE Append(messages, [run |-> r, kind |-> "warning", text |-> warning])

\* C20: the "analyse one file" command with no open editor, or with an open file whose
\* name does not end in .php, shows a warning and does nothing else: runPhpstan is not
\* invoked, the displayed diagnostics stay, no process is launched; the save listener
\* invokes runPhpstan for the saved files whose name ends in .php and for no other.
C20_NoOpTriggers ==
    [][\A r \in Slots, f \in FileNames :
           /\ (RunPhpstanFileCommand(r, f) /\ (f = "" \/ ~EndsWith(f, ".php")))
              => NoOpStep(r, "Por favor, abre un archivo PHP primero")
           /\ (OnSaveListener(r, f) /\ ~EndsWith(f, ".php")) => NoOpStep(r, "")
           /\ (OnSaveListener(r, f) /\ EndsWith(f, ".php"))
              => runs'[r].invoked /\ runs'[r].targetPath = f]_vars

\* the command was given on a file that is no PHP file while problems were displayed:
\* the warning is shown and the problems stay
C20_Witness ==
    \E q, r \in Slots :
        /\ q < r
        /\ Interpreted(q)
        /\ ~runs[r].invoked
        /\ runs[r].pc = "done"
        /\ Shown(r) = << << "warning", "Por favor, abre un archivo PHP primero" >> >>
        /\ DOMAIN diagnosticCollection = {"file:///w/t/G.php", "file:///w/s/F.php"}

\* what a DiagnosticSet shows when it alone is displayed
ShownAlone(d) == [u \in { UriFile(k) : k \in Keys(d) } |->
                     DiagsOf(d, CHOOSE k \in Keys(d) : UriFile(k) = u)]

\* invocation f applied its result while invocation l, which had cleared already, was
\* awaiting its process, then l applied its own; no other invocation ran
BothClearedThenApplied(f, l) ==
    /\ f # l
    /\ Interpreted(f)
    /\ Interpreted(l)
    /\ l \in runs[f].appliedDuring
    /\ \A q \in Slots \ {f, l} : ~runs[q].invoked

\* C21: overlapping invocations are not serialized and share the collection: when two
\* invocations both clear and then both apply, the collection holds the DiagnosticSet
\* of the one that completed last laid over that of the other, so the entries of the
\* first for files the last does not name stay displayed.
C21_OverlapMerges ==
    \A f, l \in Slots :
        BothClearedThenApplied(f, l)
        => /\ DOMAIN diagnosticCollection
              = DOMAIN ShownAlone(runs[f].diagnostics) \cup DOMAIN ShownAlone(runs[l].diagnostics)
           /\ \A u \in DOMAIN diagnosticCollection :
                  diagnosticCollection[u]
                  = IF u \in DOMAIN ShownAlone(runs[l].diagnostics)
                    THEN ShownAlone(runs[l].diagnostics)[u]
                    ELSE ShownAlone(runs[f].diagnostics)[u]

\* the run that completed last reported F.php only, and G.php of the other run is
\* displayed all the same
C21_Witness ==
    \E f, l \in Slots :
        /\ BothClearedThenApplied(f, l)
        /\ runs[f].stdout = ReportTwo
        /\ runs[l].stdout = ReportOne
        /\ diagnosticCollection # ShownAlone(runs[l].diagnostics)
        /\ DOMAIN diagnosticCollection = {"file:///w/t/G.php", "file:///w/s/F.php"}
        /\ setBy["file:///w/t/G.php"] = f
        /\ setBy["file:///w/s/F.php"] = l

\* a line made of dashes, between white space, and nothing else
IsPureSeparator(line) ==
    /\ Trim(line) # ""
    /\ \A i \in 1..Len(line) : Ch(line, i) = "-" \/ IsSpace(Ch(line, i))

\* the rules in the order blank, pure separator, diagnostic row, file header
IsRowAsStated(line) ==
    Trim(line) # "" /\ ~IsPureSeparator(line) /\ ErrorMatch(line).ok

IsHeaderAsStated(line) ==
    /\ Trim(line) # ""
    /\ ~IsPureSeparator(line)
    /\ ~ErrorMatch(line).ok
    /\ FileMatch(line).ok

\* the rows that yield a diagnostic under these rules
YieldingAsStated(lines) ==
    { i \in DOMAIN lines :
        /\ IsRowAsStated(lines[i])
        /\ ParseInt(ErrorMatch(lines[i]).num) >= 1
        /\ \E h \in 1..(i - 1) : IsHeaderAsStated(lines[h]) }

\* C22: every line falls under the first rule that matches it, in the order blank, pure
\* separator, diagnostic row, file header: only a line made of nothing but dashes is
\* skipped as a separator, and a line of the shape white space, integer, white space,
\* text is a row even when its text holds a .php token, so every such row after a
\* header yields its diagnostic and leaves the current file as it is.
C22_ClassificationAsStated ==
    \A r \in Slots :
        Interpreted(r)
        => /\ TotalErrors(runs[r].diagnostics) = Cardinality(YieldingAsStated(Lines(r)))
           /\ \A k \in Keys(runs[r].diagnostics) :
                  \E h \in DOMAIN Lines(r) :
                      /\ IsHeaderAsStated(Lines(r)[h])
                      /\ ResolvePath(Context(r), FileMatch(Lines(r)[h]).token).path = k

\* the file a yielding row is attributed to: the one its most recent header resolves to
FileOfRow(r, i) ==
    ResolvePath(Context(r), FileMatch(Lines(r)[HeaderBefore(Lines(r), i)]).token).path

\* the yielding rows of file k
RowsOf(r, k) == { i \in Yielding(Lines(r)) : FileOfRow(r, i) = k }

\* the members of a set of numbers, ascending
RECURSIVE Ascending(_)
Ascending(S) == IF S = {} THEN << >> ELSE << Min(S) >> \o Ascending(S \ {Min(S)})

\* the Diagnostics of the rows idx of the report, in that order
DiagnosticsOfRows(lines, idx) ==
    [j \in 1..Len(idx) |->
        [line |-> ParseInt(ErrorMatch(lines[idx[j]]).num) - 1,
         startChar |-> 0, endChar |-> 1000,
         message |-> Trim(ErrorMatch(lines[idx[j]]).text),
         severity |-> "Warning", source |-> "PHPStan"]]

\* C23: each diagnostic row is attributed to the file resolved from the most recent
\* file-header line before it, and the list of every file of the DiagnosticSet holds the
\* Diagnostics of its rows in the order of the rows in the report, also when the file is
\* named by several header lines: the keys are the files of the yielding rows, and the
\* list of a key is the sequence of the Diagnostics of its rows, ascending by row.
C23_AttributionInOrder ==
    \A r \in Slots :
        Interpreted(r)
        => /\ Keys(runs[r].diagnostics) = { FileOfRow(r, i) : i \in Yielding(Lines(r)) }
           /\ \A k \in Keys(runs[r].diagnostics) :
                  DiagsOf(runs[r].diagnostics, k)
                  = DiagnosticsOfRows(Lines(r), Ascending(RowsOf(r, k)))

\* s/F.php is named by two headers with /w/t/G.php between them: its list holds the row
\* of line 5 before the row of line 2, and the row of G.php went to /w/t/G.php
C23_Witness ==
    \E r \in Slots :
        /\ Interpreted(r)
        /\ runs[r].stdout = ReportAgain
        /\ runs[r].targetPath = ""
        /\ ExistsSync(fs, "/w/t/G.php")
        /\ Len(DiagsOf(runs[r].diagnostics, "/w/s/F.php")) = 2
        /\ DiagsOf(runs[r].diagnostics, "/w/s/F.php")[1].line = 4
        /\ DiagsOf(runs[r].diagnostics, "/w/s/F.php")[2].line = 1
        /\ Len(DiagsOf(runs[r].diagnostics, "/w/t/G.php")) = 1
        /\ DiagsOf(runs[r].diagnostics, "/w/t/G.php")[1].message = "in G.php"

\* the header lines of the report whose token goes through the rules on the remote
\* working directory: no single known file, and not an absolute path that exists locally
HeadersToMap(r) ==
    { h \in DOMAIN Lines(r) :
        /\ IsHeader(Lines(r)[h])
        /\ KnownFilePath(Context(r)) = ""
        /\ ~(IsAbsolute(FileMatch(Lines(r)[h]).token)
              /\ ExistsSync(fs, FileMatch(Lines(r)[h]).token)) }

TokenOf(r, h) == FileMatch(Lines(r)[h]).token

\* a path located under the directory dir: dir itself or a path below it
LocatedUnder(p, dir) == p = dir \/ StartsWith(p, dir \o "/")

\* the file of the rows that follow header h directly, when the candidate c is built for
\* it: c when it exists or when the directory searched holds no file of its name
KeptAs(r, h, c) ==
    (/\ h + 1 \in Yielding(Lines(r))
     /\ ExistsSync(fs, c) \/ FilesNamed(SearchRoot(r), Basename(TokenOf(r, h))) = {})
    => c \in Keys(runs[r].diagnostics)

\* C24: when the scope is not a single known file and the header token starts with the
\* remote working directory (and is not an absolute path that exists locally), the
\* candidate is the workspace root joined with what follows the prefix in the token, so
\* <remoteWorkDir>/p maps to <workspaceRoot>/p, and only a path located under the
\* remote working directory is rewritten this way.
C24_PrefixStripped ==
    \A r \in Slots :
        Interpreted(r)
        => \A h \in HeadersToMap(r) :
               StartsWith(TokenOf(r, h), config.workDirectory)
               => /\ Candidate(Context(r), TokenOf(r, h))
                     = PathJoin(workspaceRoot,
                                Substring(TokenOf(r, h), Len(config.workDirectory)))
                  /\ KeptAs(r, h, PathJoin(workspaceRoot,
                                Substring(TokenOf(r, h), Len(config.workDirectory))))
                  /\ LocatedUnder(TokenOf(r, h), config.workDirectory)

\* C25: when the scope is not a single known file and the header token neither exists
\* locally as an absolute path nor starts with the remote working directory, the
\* candidate is the token joined onto the workspace root, for relative and absolute
\* tokens alike, so the candidate always lies under the workspace root.
C25_JoinedOntoRoot ==
    \A r \in Slots :
        Interpreted(r)
        => \A h \in HeadersToMap(r) :
               ~StartsWith(TokenOf(r, h), config.workDirectory)
               => /\ Candidate(Context(r), TokenOf(r, h))
                     = PathJoin(workspaceRoot, TokenOf(r, h))
                  /\ LocatedUnder(Candidate(Context(r), TokenOf(r, h)), workspaceRoot)
                  /\ KeptAs(r, h, PathJoin(workspaceRoot, TokenOf(r, h)))

\* the header lines whose token is an absolute path that exists locally as it is, the
\* scope not being a single known file
HeadersAsIs(r) ==
    { h \in DOMAIN Lines(r) :
        /\ IsHeader(Lines(r)[h])
        /\ KnownFilePath(Context(r)) = ""
        /\ IsAbsolute(TokenOf(r, h))
        /\ ExistsSync(fs, TokenOf(r, h)) }

\* C26: when the scope is not a single known file and the header token is an absolute
\* path that exists locally as it is, currentFile becomes the token unchanged: the rule
\* comes before the stripping of the prefix, and no search of the workspace is made for
\* it, so a report whose headers all name such files is interpreted without error and
\* the rows that follow such a header are kept under its token.
C26_ExistingAbsoluteAsIs ==
    \A r \in Slots :
        (ExitedWith(r, 0) \/ ExitedWith(r, 1))
        => /\ \A h \in HeadersAsIs(r) :
                  /\ ResolvePath(Context(r), TokenOf(r, h)) = Found(TokenOf(r, h))
                  /\ (Interpreted(r) /\ h + 1 \in Yielding(Lines(r)))
                     => TokenOf(r, h) \in Keys(runs[r].diagnostics)
           /\ (KnownFilePath(Context(r)) = ""
               /\ \A h \in DOMAIN Lines(r) : IsHeader(Lines(r)[h]) => h \in HeadersAsIs(r))
              => /\ runs[r].error = ""
                 /\ Keys(runs[r].diagnostics) \subseteq { TokenOf(r, h) : h \in HeadersAsIs(r) }

\* the remote working directory is /w/s and the header names /w/s/F.php, which exists:
\* the row is kept under /w/s/F.php, not under the F.php that stripping the prefix and
\* searching the project would give (/w/t/F.php)
C26_Witness ==
    \E r \in Slots :
        /\ Interpreted(r)
        /\ runs[r].stdout = ReportMounted
        /\ runs[r].targetPath = ""
        /\ config.workDirectory = "/w/s"
        /\ ExistsSync(fs, "/w/t/F.php")
        /\ StartsWith("/w/s/F.php", config.workDirectory)
        /\ Keys(runs[r].diagnostics) = {"/w/s/F.php"}
        /\ "file:///w/s/F.php" \in DOMAIN diagnosticCollection

\* C27: the search by file name runs only when the path built by stripping the prefix or
\* by joining onto the workspace root does not exist: a candidate that exists is the
\* result and nothing is thrown.  The search looks inside the target directory when the
\* scope is a directory and inside the workspace root otherwise: a result other than the
\* candidate is a file that exists, is no directory, lies inside that search root and
\* bears the base name of the token.  The rows that follow the header are kept under the
\* result.
C27_SearchOnlyWhenMissing ==
    \A r \in Slots :
        (ExitedWith(r, 0) \/ ExitedWith(r, 1))
        => \A h \in HeadersToMap(r) :
               /\ ExistsSync(fs, Candidate(Context(r), TokenOf(r, h)))
                  => ResolvePath(Context(r), TokenOf(r, h))
                     = Found(Candidate(Context(r), TokenOf(r, h)))
               /\ ~ResolvePath(Context(r), TokenOf(r, h)).threw
                  => \/ ResolvePath(Context(r), TokenOf(r, h)).path
                        = Candidate(Context(r), TokenOf(r, h))
                     \/ /\ ~ExistsSync(fs, Candidate(Context(r), TokenOf(r, h)))
                        /\ ResolvePath(Context(r), TokenOf(r, h)).path
                           \in FilesNamed(SearchRoot(r), Basename(TokenOf(r, h)))
               /\ (Interpreted(r) /\ h + 1 \in Yielding(Lines(r)))
                  => ResolvePath(Context(r), TokenOf(r, h)).path \in Keys(runs[r].diagnostics)

\* the scope is the directory /w/t and the header names /r/x/G.php: the candidate
\* /w/x/G.php does not exist, the search of /w/t finds /w/t/G.php, and the directory /w/k
\* of the workspace root, which cannot be read, is not visited
C27_Witness ==
    \E r \in Slots :
        /\ Interpreted(r)
        /\ runs[r].stdout = "/r/x/G.php\n3 in G.php "
        /\ runs[r].targetPath = "/w/t"
        /\ config.workDirectory = "/r"
        /\ "/w/k" \in DOMAIN fs.kind
        /\ ~ExistsSync(fs, "/w/x/G.php")
        /\ Keys(runs[r].diagnostics) = {"/w/t/G.php"}

\* a header for which no step finds an existing file: it is not an absolute path that
\* exists, its candidate does not exist and the directory searched holds no file of
\* its name
Unresolvable(r, h) ==
    /\ h \in HeadersToMap(r)
    /\ ~ExistsSync(fs, Candidate(Context(r), TokenOf(r, h)))
    /\ FilesNamed(SearchRoot(r), Basename(TokenOf(r, h))) = {}

\* the headers of the report are all of this kind, and there is one
AllUnresolvable(r) ==
    /\ \E h \in DOMAIN Lines(r) : IsHeader(Lines(r)[h])
    /\ \A h \in DOMAIN Lines(r) : IsHeader(Lines(r)[h]) => Unresolvable(r, h)

\* C28: when no step finds an existing file for a header token, currentFile is the
\* literal path that was built, though it does not exist; the rows that follow are kept
\* under it and counted in the summary; none is dropped and no error is raised.
C28_UnresolvedKept ==
    \A r \in Slots :
        ((ExitedWith(r, 0) \/ ExitedWith(r, 1)) /\ AllUnresolvable(r))
        => /\ runs[r].error = ""
           /\ \A i \in DOMAIN Shown(r) : Shown(r)[i][1] # "error"
           /\ TotalErrors(runs[r].diagnostics) = Cardinality(Yielding(Lines(r)))
           /\ \A i \in Yielding(Lines(r)) :
                  Candidate(Context(r), TokenOf(r, HeaderBefore(Lines(r), i)))
                  \in Keys(runs[r].diagnostics)
           /\ Yielding(Lines(r)) # {}
              => Shown(r)
                 = << << "warning",
                         "PHPStan encontró " \o Numeral(Cardinality(Yielding(Lines(r))))
                         \o " problemas en "
                         \o Numeral(Cardinality(Keys(runs[r].diagnostics)))
                         \o " archivos" >> >>

\* the rows of the report that follow a header and carry the integer 0
ZeroRows(lines) == { i \in RowsAfterHeader(lines) : ParseInt(ErrorMatch(lines[i]).num) = 0 }

\* C30: every Diagnostic of the DiagnosticSet, and every Diagnostic set for display, has
\* a zero-based line number >= 0; a row whose integer is 0 is dropped even when a current
\* file is established, so the DiagnosticSet holds as many Diagnostics as there are rows
\* after a header other than those; and every key of the DiagnosticSet holds at least
\* one Diagnostic.
C30_LinesFromZero ==
    \A r \in Slots :
        Interpreted(r)
        => /\ \A p \in Places(runs[r].diagnostics) :
                  runs[r].diagnostics[p[1]].diags[p[2]].line >= 0
           /\ \A i \in DOMAIN runs[r].diagnostics : Len(runs[r].diagnostics[i].diags) >= 1
           /\ TotalErrors(runs[r].diagnostics)
              = Cardinality(RowsAfterHeader(Lines(r)) \ ZeroRows(Lines(r)))
           /\ \A u \in DOMAIN diagnosticCollection :
                  \A j \in DOMAIN diagnosticCollection[u] : diagnosticCollection[u][j].line >= 0

\* the header s/F.php establishes the current file and the row "0 zero" follows it: the
\* row is dropped, the DiagnosticSet is empty and no problem is reported
C30_Witness ==
    \E r \in Slots :
        /\ Interpreted(r)
        /\ runs[r].stdout = " Line   s/F.php\n  0 zero"
        /\ ZeroRows(Lines(r)) = {2}
        /\ runs[r].diagnostics = << >>
        /\ Shown(r) = << << "information", "PHPStan no encontró problemas" >> >>

\* how far an invocation is: every step of it takes it further
Rank(pc) ==
    CASE pc = "idle" -> 0 [] pc = "progress" -> 1 [] pc = "exec" -> 2
      [] pc = "rethrown" -> 3 [] pc = "done" -> 4

LastEvent(r) == runs[r].trace[Len(runs[r].trace)]

\* the step, if it is one of invocation r, takes it further towards its end
StepsForward(r) ==
    /\ runs'[r].pc # runs[r].pc => Rank(runs'[r].pc) > Rank(runs[r].pc)
    /\ runs'[r].trace # runs[r].trace => runs'[r].pc # runs[r].pc
    /\ (runs[r].pc = "idle" /\ runs'[r].invoked /\ workspaceRoot # "")
       => runs'[r].pc = "progress"
    /\ (runs[r].pc = "progress" /\ runs'[r].pc # "progress")
       => runs'[r].pc = "exec" /\ runs'[r].exit = ""
    /\ (runs[r].pc = "exec" /\ runs'[r].pc # "exec")
       => /\ runs'[r].exit \in {"exit", "timeout"}
          /\ runs'[r].pc \in {"rethrown", "done"}
          /\ runs'[r].exit = "timeout" => runs'[r].pc = "rethrown"
    /\ (runs[r].pc = "rethrown" /\ runs'[r].pc # "rethrown")
       => runs'[r].pc = "done" /\ LastEvent(r)' = Event("message", "error")

\* the step leaves an invocation that is over as it is, and an invocation that gets
\* over has launched one command, waited for its end and shown a summary or an error
EndsOnce(r) ==
    /\ runs[r].pc = "done"
       => /\ runs'[r].pc = "done"
          /\ runs'[r].trace = runs[r].trace
          /\ MessagesOf(r)' = MessagesOf(r)
    /\ (runs[r].pc \in {"exec", "rethrown"} /\ runs'[r].pc = "done")
       => /\ Cardinality(EventsOf(r, "launch")') = 1
          /\ runs'[r].exit \in {"exit", "timeout"}
          /\ LastEvent(r)'.ev = "message"
          /\ Len(MessagesOf(r)') = 1
          /\ MessagesOf(r)'[1].kind \in {"information", "warning", "error"}
          /\ runs'[r].exit = "timeout" => MessagesOf(r)'[1].kind = "error"

FailedAloneLast(r) ==
    /\ Failed(r)
    /\ runs[r].pc \in {"rethrown", "done"}
    /\ ~runs[r].overlapped
    /\ \A q \in Slots : q > r => ~runs[q].invoked

\* C31: after a run that does not overlap another and whose execution fails (timeout, or
\* an exit code other than 0 and 1) no diagnostic is displayed: the run cleared the
\* collection before it launched the command, what the run before had displayed is not
\* put back, and the run sets nothing.
C31_FailureLeavesNothing ==
    \A r \in Slots :
        FailedAloneLast(r)
        => /\ diagnosticCollection = << >>
           /\ setBy = << >>
           /\ EventsOf(r, "set") = {}
           /\ \A i \in EventsOf(r, "launch") : \E j \in EventsOf(r, "clear") : j < i

\* a run displayed the diagnostics of two files; the next run timed out or exited with
\* code 2: nothing is displayed any more
C31_Witness ==
    \E q, r \in Slots :
        /\ q < r
        /\ Interpreted(q)
        /\ Keys(runs[q].diagnostics) = {"/w/t/G.php", "/w/s/F.php"}
        /\ FailedAloneLast(r)
        /\ runs[r].pc = "done"
        /\ EventsOf(r, "clear") # {}
        /\ diagnosticCollection = << >>

====
